---------------------------- MODULE Spec2Model ----------------------------
(***************************************************************************)
(* Model of gematria.py: the three scoring functions, the tokenization     *)
(* done by process_file, and the SQLite-backed words table written by      *)
(* create_database / insert_word, run by one or several invocations of     *)
(* main() against the same gematria.db.                                    *)
(*                                                                         *)
(* A Python str is modelled as the sequence of its code points, so that    *)
(* ord() is the identity and str.lower(), str.isalpha() and str.split()    *)
(* are computed character by character as CPython computes them.           *)
(***************************************************************************)
EXTENDS Integers, Sequences, FiniteSets, TLC

(***************************************************************************)
(* Bounds of the model.                                                    *)
(***************************************************************************)
\* longest argument of the scoring functions enumerated over Alphabet
MaxLen == 3
\* longest file content enumerated over TextAlphabet
MaxTextLen == 3
\* invocations of main() / callers of insert_word sharing gematria.db
NProcs == 2
\* storage faults (I/O error, disk full, unopenable file) injected in a behaviour
MaxFaults == 2
\* consecutive runs of main() on the same input in the sequential scenario
MaxRuns == 2

(***************************************************************************)
(* Characters.  Char is the part of Unicode the model enumerates; the      *)
(* classification below is CPython's for exactly these code points.        *)
(***************************************************************************)
UpperAscii == 65..90
LowerAscii == 97..122
\* U+00C9 E-acute, U+00E9 e-acute, U+0130 I-with-dot, U+212A KELVIN SIGN
NonAsciiLetters == {201, 233, 304, 8490}
\* tab, LF, space, U+00A0 NO-BREAK SPACE
Whitespace == {9, 10, 32, 160}
\* '!', '1', '3', '2', U+0307 COMBINING DOT ABOVE (category Mn)
OtherChars == {33, 49, 50, 51, 775}
Char == UpperAscii \cup LowerAscii \cup NonAsciiLetters \cup Whitespace \cup OtherChars

\* str.isalpha() for one character: Unicode general category L*
char_isalpha(c) == c \in UpperAscii \cup LowerAscii \cup NonAsciiLetters

\* str.isspace() for one character, as str.split() with no separator uses it
char_isspace(c) == c \in Whitespace

\* str.lower() for one character: the full lowercase mapping (a string)
char_lower(c) ==
    IF c \in UpperAscii THEN <<c + 32>>
    ELSE IF c = 201 THEN <<233>>
    ELSE IF c = 8490 THEN <<107>>
    ELSE IF c = 304 THEN <<105, 775>>
    ELSE <<c>>

RECURSIVE lower(_)
\* str.lower()
lower(s) == IF s = <<>> THEN <<>> ELSE char_lower(Head(s)) \o lower(Tail(s))

\* str.isalpha(): non-empty and every character alphabetic
isalpha(s) == s # <<>> /\ \A i \in 1..Len(s) : char_isalpha(s[i])

RECURSIVE sum(_)
\* the builtin sum() over a list of integers
sum(xs) == IF xs = <<>> THEN 0 ELSE Head(xs) + sum(Tail(xs))

RECURSIVE split_from(_, _, _)
\* str.split() with no separator: the scan from position i with the token
\* under construction cur; runs of whitespace separate, no empty token
split_from(s, i, cur) ==
    IF i > Len(s)
    THEN IF cur = <<>> THEN <<>> ELSE <<cur>>
    ELSE IF char_isspace(s[i])
         THEN IF cur = <<>> THEN split_from(s, i + 1, <<>>)
              ELSE <<cur>> \o split_from(s, i + 1, <<>>)
         ELSE split_from(s, i + 1, Append(cur, s[i]))

split(s) == split_from(s, 1, <<>>)

(***************************************************************************)
(* The scoring functions.                                                  *)
(***************************************************************************)
\* the same sum taken over word instead of word.lower()
calculate_gematria_case_sensitive(word) ==
    sum([i \in 1..Len(word) |-> IF char_isalpha(word[i]) THEN word[i] - 96 ELSE 0])

\* sum(ord(char) - 96 for char in word.lower() if char.isalpha())
calculate_gematria(word) ==
    LET lw == lower(word)
    IN  sum([i \in 1..Len(lw) |-> IF char_isalpha(lw[i]) THEN lw[i] - 96 ELSE 0])

\* the table with the entry of 'j' left out
hebrew_values_without_j ==
    (97 :> 1) @@ (98 :> 2) @@ (99 :> 3) @@ (100 :> 4) @@ (101 :> 5) @@
    (102 :> 6) @@ (103 :> 7) @@ (104 :> 8) @@ (105 :> 9) @@
    (107 :> 10) @@ (108 :> 20) @@ (109 :> 30) @@ (110 :> 40) @@ (111 :> 50) @@
    (112 :> 60) @@ (113 :> 70) @@ (114 :> 80) @@
    (115 :> 90) @@ (116 :> 100) @@ (117 :> 200) @@ (120 :> 300) @@
    (121 :> 400) @@ (122 :> 500) @@
    (118 :> 700) @@ (119 :> 900)

\* the dict literal of calculate_hebrew_gematria, keys as code points
hebrew_values ==
    (97 :> 1) @@ (98 :> 2) @@ (99 :> 3) @@ (100 :> 4) @@ (101 :> 5) @@
    (102 :> 6) @@ (103 :> 7) @@ (104 :> 8) @@ (105 :> 9) @@
    (107 :> 10) @@ (108 :> 20) @@ (109 :> 30) @@ (110 :> 40) @@ (111 :> 50) @@
    (112 :> 60) @@ (113 :> 70) @@ (114 :> 80) @@
    (115 :> 90) @@ (116 :> 100) @@ (117 :> 200) @@ (120 :> 300) @@
    (121 :> 400) @@ (122 :> 500) @@ (106 :> 600) @@
    (118 :> 700) @@ (119 :> 900)

\* sum(hebrew_values[char] for char in word.lower() if char in hebrew_values)
calculate_hebrew_gematria(word) ==
    LET lw == lower(word)
    IN  sum([i \in 1..Len(lw) |->
               IF lw[i] \in DOMAIN hebrew_values THEN hebrew_values[lw[i]] ELSE 0])

\* the table with 'v' mistyped as 123
english_values_v_wrong ==
    (97 :> 6) @@ (98 :> 12) @@ (99 :> 18) @@ (100 :> 24) @@ (101 :> 30) @@
    (102 :> 36) @@ (103 :> 42) @@ (104 :> 48) @@ (105 :> 54) @@
    (106 :> 60) @@ (107 :> 66) @@ (108 :> 72) @@ (109 :> 78) @@ (110 :> 84) @@
    (111 :> 90) @@ (112 :> 96) @@ (113 :> 102) @@ (114 :> 108) @@
    (115 :> 114) @@ (116 :> 120) @@ (117 :> 126) @@ (118 :> 123) @@
    (119 :> 138) @@ (120 :> 144) @@ (121 :> 150) @@ (122 :> 156)

\* the dict literal of calculate_english_gematria, keys as code points
english_values ==
    (97 :> 6) @@ (98 :> 12) @@ (99 :> 18) @@ (100 :> 24) @@ (101 :> 30) @@
    (102 :> 36) @@ (103 :> 42) @@ (104 :> 48) @@ (105 :> 54) @@
    (106 :> 60) @@ (107 :> 66) @@ (108 :> 72) @@ (109 :> 78) @@ (110 :> 84) @@
    (111 :> 90) @@ (112 :> 96) @@ (113 :> 102) @@ (114 :> 108) @@
    (115 :> 114) @@ (116 :> 120) @@ (117 :> 126) @@ (118 :> 132) @@
    (119 :> 138) @@ (120 :> 144) @@ (121 :> 150) @@ (122 :> 156)

\* sum(english_values[char] for char in word.lower() if char in english_values)
calculate_english_gematria(word) ==
    LET lw == lower(word)
    IN  sum([i \in 1..Len(lw) |->
               IF lw[i] \in DOMAIN english_values THEN english_values[lw[i]] ELSE 0])

\* tokens stripped of their non-alphabetic characters instead of discarded
token_set_stripped(text) ==
    LET toks == split(text)
        strip(t) == SelectSeq(t, char_isalpha)
    IN  {strip(toks[i]) : i \in {j \in 1..Len(toks) : strip(toks[j]) # <<>>}}

\* set(word for word in text.split() if word.isalpha())
token_set(text) ==
    LET toks == split(text)
    IN  {toks[i] : i \in {j \in 1..Len(toks) : isalpha(toks[j])}}

(***************************************************************************)
(* Strings used as inputs.                                                 *)
(***************************************************************************)
\* characters the bounded inputs are built from: ' ', LF, 'a', 'B', '1', e-acute
Alphabet == {32, 10, 97, 66, 49, 233}

\* characters the bounded file contents are built from: ' ', LF, 'a', 'B', '1'
TextAlphabet == {32, 10, 97, 66, 49}

StringsUpTo(n, A) == UNION {[1..k -> A] : k \in 0..n}

\* "abc"
Str_abc == <<97, 98, 99>>
\* "Abe"
Str_Abe == <<65, 98, 101>>
\* "Cat"
Str_Cat == <<67, 97, 116>>
\* "cat"
Str_cat == <<99, 97, 116>>
\* "DOG"
Str_DOG == <<68, 79, 71>>
\* "ab"
Str_ab == <<97, 98>>
\* "Ab"
Str_Ab == <<65, 98>>
\* "Cat cat DOG 123 dog!"
Str_Example ==
    <<67, 97, 116, 32, 99, 97, 116, 32, 68, 79, 71, 32, 49, 50, 51, 32,
      100, 111, 103, 33>>
\* "Ab ab"
Str_Ab_ab == <<65, 98, 32, 97, 98>>
\* "1\u00e9 \u00c9b": a non-alphabetic token and one with non-ASCII letters
Str_e_acute == <<49, 233, 32, 201, 98>>
\* "ab a"
Str_ab_a == <<97, 98, 32, 97>>

\* arguments the scoring functions are applied to
Inputs ==
    StringsUpTo(MaxLen, Alphabet) \cup {<<c>> : c \in Char}
        \cup {Str_abc, Str_Abe, Str_Example, <<8490, 304>>}

\* file contents of the sequential scenario (the empty text is what
\* extract_text returns for an unsupported or unreadable file)
SeqTexts ==
    StringsUpTo(MaxTextLen, TextAlphabet) \cup {Str_Ab_ab, Str_Example, Str_e_acute}

\* file contents of the concurrent scenario
ConcTexts == {Str_ab, Str_Ab_ab, Str_ab_a}

\* arguments of a direct insert_word call
CallArgs == {[word |-> Str_ab, vals |-> v] : v \in {<<0, 0, 0>>, <<3, 3, 18>>}}

(***************************************************************************)
(* State.                                                                  *)
(***************************************************************************)
Procs == 1..NProcs

VARIABLES
    arg,      \* the word handed to the scoring functions
    applied,  \* which of the scoring functions have been applied to arg
    scores,   \* <<simple, hebrew, english>> of arg
    schema,   \* gematria.db has the table words
    store,    \* committed rows of words, in rowid order: <<word, s, h, e>>
    lock,     \* process holding the database write lock, 0 when free
    txn,      \* per process: the table as its open transaction sees it
    pc,       \* per process: position in main()
    entry,    \* per process: "main" or a direct "insert_word" call
    run,      \* per process: number of the current run of main()
    text,     \* per process: what extract_text returned
    words,    \* per process: the set built at line 102
    todo,     \* per process: words the for loop has not reached yet
    cur,      \* per process: arguments of the current insert_word call
    log,      \* per process: this run's logger records, and its traceback
    exits,    \* per process: exit statuses of the runs that have ended
    faults    \* storage faults injected so far

pure_vars == <<arg, applied, scores>>
db_vars == <<schema, store, lock, txn>>
proc_vars == <<pc, entry, run, text, words, todo, cur, log, exits>>
vars == <<arg, applied, scores, schema, store, lock, txn,
          pc, entry, run, text, words, todo, cur, log, exits, faults>>

NoCall == [word |-> <<>>, vals |-> <<>>]
NoTxn == <<"none">>

\* one record of the report stream
LogRec(p, level, op, msg, call) ==
    [level |-> level, op |-> op, msg |-> msg,
     word |-> call.word, vals |-> call.vals]

(***************************************************************************)
(* SQL statements on the words table.                                      *)
(***************************************************************************)
HasKey(table, w) == \E i \in 1..Len(table) : table[i][1] = w

\* INSERT (no conflict clause): a duplicate key is an IntegrityError
sql_insert(table, row) ==
    IF HasKey(table, row[1])
    THEN [rows |-> table, err |-> "constraint"]
    ELSE [rows |-> Append(table, row), err |-> ""]

\* INSERT OR REPLACE: the existing row is deleted and the new one added
sql_insert_or_replace(table, row) ==
    [rows |-> Append(SelectSeq(table, LAMBDA r : r[1] # row[1]), row), err |-> ""]

\* INSERT into a table declared without PRIMARY KEY
sql_insert_no_key(table, row) ==
    [rows |-> Append(table, row), err |-> ""]

\* INSERT OR IGNORE INTO words (word, ...) VALUES (?, ?, ?, ?) with word the
\* PRIMARY KEY (BINARY collation): a row whose key exists is skipped silently
sql_insert_or_ignore(table, row) ==
    IF HasKey(table, row[1])
    THEN [rows |-> table, err |-> ""]
    ELSE [rows |-> Append(table, row), err |-> ""]

\* writers that do not exclude each other
no_write_lock(p) == TRUE

\* SQLite admits one write transaction at a time
write_lock_free(p) == lock \in {0, p}

(***************************************************************************)
(* Initial states.                                                         *)
(***************************************************************************)
ProcInit ==
    /\ pc = [p \in Procs |-> "idle"]
    /\ entry = [p \in Procs |-> "main"]
    /\ run = [p \in Procs |-> 0]
    /\ text = [p \in Procs |-> <<>>]
    /\ words = [p \in Procs |-> {}]
    /\ todo = [p \in Procs |-> {}]
    /\ cur = [p \in Procs |-> NoCall]
    /\ log = [p \in Procs |-> <<>>]
    /\ exits = [p \in Procs |-> <<>>]
    /\ txn = [p \in Procs |-> NoTxn]
    /\ lock = 0
    /\ faults = 0

PureIdle ==
    /\ arg = <<>>
    /\ applied = {}
    /\ scores = <<>>

\* a fresh working directory: no gematria.db yet
Init ==
    /\ PureIdle
    /\ ProcInit
    /\ schema = FALSE
    /\ store = <<>>

(***************************************************************************)
(* The scoring functions applied to one word.                              *)
(***************************************************************************)
InitPure ==
    /\ arg \in Inputs
    /\ applied = {}
    /\ scores = <<>>
    /\ ProcInit
    /\ schema = FALSE
    /\ store = <<>>

\* lines 104-106 of process_file: the three scores of one word
score_word(word) ==
    <<calculate_gematria(word), calculate_hebrew_gematria(word),
      calculate_english_gematria(word)>>

ApplyScores ==
    /\ "scores" \notin applied
    /\ applied' = applied \cup {"scores"}
    /\ scores' = score_word(arg)
    /\ UNCHANGED <<arg, db_vars, proc_vars, faults>>

NextPure == ApplyScores

SpecPure == InitPure /\ [][NextPure]_vars

(***************************************************************************)
(* main(), step by step, for process p.                                    *)
(***************************************************************************)
Emit(p, rec) == log' = [log EXCEPT ![p] = Append(@, rec)]

Emit2(p, rec1, rec2) == log' = [log EXCEPT ![p] = Append(Append(@, rec1), rec2)]

\* the process ends with the given status (1: an uncaught exception)
Exit(p, status) == exits' = [exits EXCEPT ![p] = Append(@, status)]

Fault == faults < MaxFaults /\ faults' = faults + 1

\* main() is started on a file whose extracted text is one of T
Main(p, T) ==
    /\ pc[p] = "idle"
    /\ \E t \in T : text' = [text EXCEPT ![p] = t]
    /\ run' = [run EXCEPT ![p] = 1]
    /\ pc' = [pc EXCEPT ![p] = "create"]
    /\ UNCHANGED <<pure_vars, db_vars, entry, words, todo, cur, log, exits, faults>>

\* the same command is run again, as a new process, after the previous run ended
Rerun(p) ==
    /\ pc[p] \in {"done", "crashed"}
    /\ entry[p] = "main"
    /\ run[p] < MaxRuns
    /\ run' = [run EXCEPT ![p] = @ + 1]
    /\ pc' = [pc EXCEPT ![p] = "create"]
    /\ words' = [words EXCEPT ![p] = {}]
    /\ todo' = [todo EXCEPT ![p] = {}]
    /\ cur' = [cur EXCEPT ![p] = NoCall]
    /\ log' = [log EXCEPT ![p] = <<>>]
    /\ UNCHANGED <<pure_vars, db_vars, entry, text, exits, faults>>

\* insert_word is called directly, outside main()
CallInsertWord(p) ==
    /\ pc[p] = "idle"
    /\ \E c \in CallArgs : cur' = [cur EXCEPT ![p] = c]
    /\ entry' = [entry EXCEPT ![p] = "insert_word"]
    /\ pc' = [pc EXCEPT ![p] = "connect"]
    /\ UNCHANGED <<pure_vars, db_vars, run, text, words, todo, log, exits, faults>>

\* create_database(): connect outside the try, CREATE TABLE IF NOT EXISTS and
\* commit inside it, close in the finally
create_database(p) ==
    /\ pc[p] = "create"
    /\ \/ \* sqlite3.connect raises: nothing catches it
          /\ Fault
          /\ Emit(p, LogRec(p, "traceback", "create_database", "OperationalError", NoCall))
          /\ pc' = [pc EXCEPT ![p] = "crashed"]
          /\ Exit(p, 1)
          /\ UNCHANGED schema
       \/ \* execute or commit raises: logged
          /\ Fault
          /\ Emit(p, LogRec(p, "error", "create_database", "io", NoCall))
          /\ pc' = [pc EXCEPT ![p] = "process"]
          /\ UNCHANGED <<schema, exits>>
       \/ /\ schema' = TRUE
          /\ pc' = [pc EXCEPT ![p] = "process"]
          /\ UNCHANGED <<log, exits, faults>>
    /\ UNCHANGED <<pure_vars, store, lock, txn, entry, run, text, words, todo, cur>>

\* process_file, lines 101-102: the token set
process_file(p) ==
    /\ pc[p] = "process"
    /\ words' = [words EXCEPT ![p] = token_set(text[p])]
    /\ todo' = [todo EXCEPT ![p] = token_set(text[p])]
    /\ pc' = [pc EXCEPT ![p] = "loop"]
    /\ UNCHANGED <<pure_vars, db_vars, entry, run, text, cur, log, exits, faults>>

\* process_file, lines 103-107: the next word of the set (in any order), its
\* scores, and the call of insert_word; or the end of the loop
for_word(p) ==
    /\ pc[p] = "loop"
    /\ \/ /\ todo[p] = {}
          /\ pc' = [pc EXCEPT ![p] = "done"]
          /\ Exit(p, 0)
          /\ UNCHANGED <<todo, cur>>
       \/ \E w \in todo[p] :
            /\ todo' = [todo EXCEPT ![p] = @ \ {w}]
            /\ cur' = [cur EXCEPT ![p] = [word |-> w, vals |-> score_word(w)]]
            /\ pc' = [pc EXCEPT ![p] = "connect"]
            /\ UNCHANGED exits
    /\ UNCHANGED <<pure_vars, db_vars, entry, run, text, words, log, faults>>

\* insert_word, line 86: sqlite3.connect inside the try.  When it raises, the
\* except clause logs, and the finally clause reads the unbound local conn:
\* UnboundLocalError leaves insert_word
insert_connect(p) ==
    /\ pc[p] = "connect"
    /\ \/ /\ pc' = [pc EXCEPT ![p] = "execute"]
          /\ UNCHANGED <<log, exits, faults>>
       \/ /\ Fault
          /\ Emit2(p, LogRec(p, "error", "insert_word", "io", NoCall),
                      LogRec(p, "traceback", "insert_word", "UnboundLocalError", NoCall))
          /\ pc' = [pc EXCEPT ![p] = "crashed"]
          /\ Exit(p, 1)
    /\ UNCHANGED <<pure_vars, db_vars, entry, run, text, words, todo, cur>>

\* insert_word, lines 87-90: the INSERT OR IGNORE statement opens a write
\* transaction and runs in it
insert_execute(p) ==
    /\ pc[p] = "execute"
    /\ \/ /\ schema
          /\ write_lock_free(p)
          /\ LET r == sql_insert_or_ignore(store, <<cur[p].word>> \o cur[p].vals)
             IN  /\ lock' = p
                 /\ txn' = [txn EXCEPT ![p] = r.rows]
                 /\ IF r.err = ""
                    THEN /\ pc' = [pc EXCEPT ![p] = "commit"]
                         /\ UNCHANGED log
                    ELSE /\ pc' = [pc EXCEPT ![p] = "close"]
                         /\ Emit(p, LogRec(p, "error", "insert_word", r.err, NoCall))
          /\ UNCHANGED faults
       \/ \* no such table: words
          /\ ~schema
          /\ Emit(p, LogRec(p, "error", "insert_word", "no such table", NoCall))
          /\ pc' = [pc EXCEPT ![p] = "close"]
          /\ UNCHANGED <<lock, txn, faults>>
       \/ \* database is locked: the busy timeout ran out
          /\ lock \notin {0, p}
          /\ Emit(p, LogRec(p, "error", "insert_word", "locked", NoCall))
          /\ pc' = [pc EXCEPT ![p] = "close"]
          /\ UNCHANGED <<lock, txn, faults>>
       \/ /\ Fault
          /\ Emit(p, LogRec(p, "error", "insert_word", "io", NoCall))
          /\ pc' = [pc EXCEPT ![p] = "close"]
          /\ UNCHANGED <<lock, txn>>
    /\ UNCHANGED <<pure_vars, schema, store, entry, run, text, words, todo, cur, exits>>

\* insert_word, line 91: conn.commit()
insert_commit(p) ==
    /\ pc[p] = "commit"
    /\ \/ /\ store' = txn[p]
          /\ txn' = [txn EXCEPT ![p] = NoTxn]
          /\ lock' = 0
          /\ UNCHANGED <<log, faults>>
       \/ /\ Fault
          /\ Emit(p, LogRec(p, "error", "insert_word", "io", NoCall))
          /\ UNCHANGED <<store, txn, lock>>
    /\ pc' = [pc EXCEPT ![p] = "close"]
    /\ UNCHANGED <<pure_vars, schema, entry, run, text, words, todo, cur, exits>>

\* insert_word, lines 94-95: conn.close() rolls back what was not committed;
\* insert_word returns
insert_close(p) ==
    /\ pc[p] = "close"
    /\ lock' = IF lock = p THEN 0 ELSE lock
    /\ txn' = [txn EXCEPT ![p] = NoTxn]
    /\ pc' = [pc EXCEPT ![p] = IF entry[p] = "main" THEN "report" ELSE "done"]
    /\ UNCHANGED <<pure_vars, schema, store, entry, run, text, words, todo, cur, log,
                   exits, faults>>

\* process_file, line 108: logger.info
report(p) ==
    /\ pc[p] = "report"
    /\ Emit(p, LogRec(p, "info", "process_file", "Processed word", cur[p]))
    /\ pc' = [pc EXCEPT ![p] = "loop"]
    /\ UNCHANGED <<pure_vars, db_vars, entry, run, text, words, todo, cur, exits, faults>>

insert_word(p) ==
    insert_connect(p) \/ insert_execute(p) \/ insert_commit(p) \/ insert_close(p)

Step(p) ==
    create_database(p) \/ process_file(p) \/ for_word(p) \/ insert_word(p) \/ report(p)

\* several invocations, and direct callers of insert_word, share gematria.db
Next == \E p \in Procs : Main(p, ConcTexts) \/ CallInsertWord(p) \/ Step(p)

Spec == Init /\ [][Next]_vars

\* the store a run may find: empty, or left by earlier runs on other inputs
InitialStores ==
    {<<>>,
     <<<<Str_cat>> \o score_word(Str_cat), <<<<97>>>> \o score_word(<<97>>)>>}

InitSeq ==
    /\ PureIdle
    /\ ProcInit
    /\ store \in InitialStores
    /\ schema = (store # <<>>)

\* one invocation at a time: main() run on a file, then run again
NextSeq == Main(1, SeqTexts) \/ Rerun(1) \/ Step(1)

SpecSeq == InitSeq /\ [][NextSeq]_vars

(***************************************************************************)
(* Vocabulary of the properties.                                           *)
(***************************************************************************)
InCall == {"connect", "execute", "commit", "close"}

\* rows of the table whose key is w
RowsOf(table, w) == {i \in 1..Len(table) : table[i][1] = w}

UniqueKeys ==
    \A i, j \in 1..Len(store) : store[i][1] = store[j][1] => i = j

\* no logger record reports a violated PRIMARY KEY constraint
NoConstraintError ==
    \A p \in Procs : \A i \in 1..Len(log[p]) : log[p][i].msg # "constraint"

\* positions of the 'Processed word' records of w in p's report stream
InfoRecs(p, w) ==
    {i \in 1..Len(log[p]) : log[p][i].level = "info" /\ log[p][i].word = w}

\* process_file has built its set of words in the current run of p (a run
\* that crashed in insert_word had a call under way)
Tokenized(p) ==
    \/ pc[p] \in {"loop", "report", "done"} \cup InCall
    \/ pc[p] = "crashed" /\ cur[p] # NoCall

\* the insert_word call reported at position i logged no error of its own
CleanInsert(p, i) ==
    i = 1 \/ ~(log[p][i - 1].level = "error" /\ log[p][i - 1].op = "insert_word")

\* the whitespace-separated tokens of t made of alphabetic characters only,
\* stated on positions of t: a token starts after whitespace (or at the
\* start), ends before whitespace (or at the end) and holds only letters
AlphabeticTokens(t) ==
    LET n == Len(t)
        starts == {i \in 1..n : char_isalpha(t[i]) /\ (i = 1 \/ char_isspace(t[i - 1]))}
        ends == {j \in 1..n : char_isalpha(t[j]) /\ (j = n \/ char_isspace(t[j + 1]))}
    IN  {SubSeq(t, ij[1], ij[2]) : ij \in
            {ij \in starts \X ends :
                ij[1] <= ij[2] /\ \A k \in ij[1]..ij[2] : char_isalpha(t[k])}}

\* 1-based alphabet position of an ASCII letter of either case, 0 otherwise
AlphabetPosition(c) ==
    IF c \in LowerAscii THEN c - 96 ELSE IF c \in UpperAscii THEN c - 64 ELSE 0

OnlyAsciiLetters(s) == \A i \in 1..Len(s) : s[i] \in UpperAscii \cup LowerAscii

(***************************************************************************)
(* C1.  First-write-wins insertion.                                        *)
(***************************************************************************)
\* a step that changes the table appends one row, for a word that was not a
\* key, holding the arguments of the insert_word call that commits
StoreStep ==
    store' # store =>
        \E p \in Procs :
            /\ pc[p] = "commit"
            /\ ~HasKey(store, cur[p].word)
            /\ store' = Append(store, <<cur[p].word>> \o cur[p].vals)

\* C1: over any interleaving of insert_word calls (from runs of main() and
\* from direct callers passing other scores) every word is the key of at most
\* one row, a row once written is never changed or removed and holds the
\* arguments of the call that wrote it, and no call fails on a duplicate key.
C1_FirstWriteWins ==
    [][StoreStep /\ UniqueKeys' /\ NoConstraintError']_vars

\* a direct call insert_word("ab", 0, 0, 0) has returned without logging
\* anything while the row of "ab" holds the scores an earlier call stored
C1_Witness ==
    \E p \in Procs :
        /\ entry[p] = "insert_word"
        /\ pc[p] = "done"
        /\ cur[p] = [word |-> Str_ab, vals |-> <<0, 0, 0>>]
        /\ log[p] = <<>>
        /\ store # <<>>
        /\ \A i \in RowsOf(store, Str_ab) : store[i] = <<Str_ab>> \o score_word(Str_ab)
        /\ RowsOf(store, Str_ab) # {}

(***************************************************************************)
(* C2.  No storage failure terminates the run.                             *)
(***************************************************************************)
\* C2, as claimed: every failure of opening the store, creating the schema or
\* inserting a word is caught inside create_database / insert_word, so that
\* no exception ever leaves them and no run ends in a traceback.
C2_NoExceptionEscapes ==
    \A p \in Procs : pc[p] # "crashed"

C4_EveryTriedWordStored ==
    (/\ faults = 0
     /\ \A p \in Procs : entry[p] = "main" /\ pc[p] \in {"idle", "done", "crashed"}) =>
        /\ NoConstraintError
        /\ \A p \in Procs :
             entry[p] = "main" =>
                \A w \in words[p] \ todo[p] : Cardinality(RowsOf(store, w)) = 1

\* C4, amended: whatever the interleaving, no run gets a duplicate-key error,
\* no word is the key of two rows, and every word whose insert_word call
\* returned without logging an error is the key of exactly one row (a word
\* whose insert failed, for instance on 'database is locked', is missing
\* unless another call stored it).
C4_CommittedWordsStored ==
    /\ NoConstraintError
    /\ UniqueKeys
    /\ \A p \in Procs :
         /\ \A i \in 1..Len(log[p]) :
              (log[p][i].level = "info" /\ CleanInsert(p, i))
                  => Cardinality(RowsOf(store, log[p][i].word)) = 1
         /\ (entry[p] = "insert_word" /\ pc[p] = "done" /\ log[p] = <<>>)
                  => Cardinality(RowsOf(store, cur[p].word)) = 1

\* two runs of main() have both ended normally, one of them after an insert
\* that found the database locked by the other, and a clean insert of each
\* is in the table
C4_Witness ==
    \E p, q \in Procs :
        /\ p # q
        /\ entry[p] = "main" /\ entry[q] = "main"
        /\ pc[p] = "done" /\ pc[q] = "done"
        /\ \E i \in 1..Len(log[q]) : log[q][i].msg = "locked"
        /\ \E i \in 1..Len(log[q]) : log[q][i].level = "info" /\ CleanInsert(q, i)
        /\ \E i \in 1..Len(log[p]) : log[p][i].level = "info" /\ CleanInsert(p, i)
        /\ Len(store) >= 2

(***************************************************************************)
(* C5.  Tokenization.                                                      *)
(***************************************************************************)
\* C5: the set process_file iterates over is exactly the set of distinct
\* whitespace-separated tokens of the text that consist of alphabetic
\* characters only; each insert_word call of the run passes one of them,
\* unchanged in case; a call that logged no error leaves that exact string as
\* a key; a run that ends normally has passed each of them exactly once; and
\* "Cat cat DOG 123 dog!" gives exactly "Cat", "cat" and "DOG".
C5_Tokenization ==
    \A p \in Procs :
        (entry[p] = "main" /\ Tokenized(p)) =>
            /\ words[p] = AlphabeticTokens(text[p])
            /\ todo[p] \subseteq words[p]
            /\ pc[p] \in InCall \cup {"report"} =>
                  cur[p].word \in words[p] \ todo[p]
            /\ (pc[p] = "report"
                    /\ (log[p] = <<>> \/ log[p][Len(log[p])].level = "info"))
                  => HasKey(store, cur[p].word)
            /\ \A i \in 1..Len(log[p]) :
                  log[p][i].level = "info" => log[p][i].word \in words[p] \ todo[p]
            /\ pc[p] = "done" =>
                  /\ todo[p] = {}
                  /\ \A w \in words[p] : Cardinality(InfoRecs(p, w)) = 1
            /\ text[p] = Str_Example => words[p] = {Str_Cat, Str_cat, Str_DOG}

\* the run on "Cat cat DOG 123 dog!" has ended normally with exactly the
\* keys "Cat", "cat" and "DOG" in a table that was empty before
C5_Witness ==
    /\ pc[1] = "done"
    /\ text[1] = Str_Example
    /\ {store[i][1] : i \in 1..Len(store)} = {Str_Cat, Str_cat, Str_DOG}
    /\ Len(log[1]) = 3

(***************************************************************************)
(* C6.  Case of the stored key.                                            *)
(***************************************************************************)
\* C6, as claimed: every word process_file passes on, and so every key it
\* writes, is in lowercase.
C6_KeysAreLowercase ==
    \A p \in Procs :
        (entry[p] = "main" /\ pc[p] \in InCall \cup {"report"}) =>
            cur[p].word = lower(cur[p].word)

\* C6, amended: only the scoring is case-insensitive.  The three scores
\* process_file passes to insert_word are those of the token's lowercase
\* form, while the word it passes, and the key a successful insert writes,
\* is the token itself in its original case.
C6_ScoresOfLowercaseKeyOfToken ==
    \A p \in Procs :
        (entry[p] = "main" /\ pc[p] \in InCall \cup {"report"}) =>
            /\ cur[p].word \in AlphabeticTokens(text[p])
            /\ cur[p].vals = score_word(lower(cur[p].word))
            /\ OnlyAsciiLetters(cur[p].word) =>
                  cur[p].vals[1] =
                      sum([i \in 1..Len(cur[p].word) |-> AlphabetPosition(cur[p].word[i])])
            /\ (pc[p] = "report"
                    /\ (log[p] = <<>> \/ log[p][Len(log[p])].level = "info"))
                  => \E i \in 1..Len(store) : store[i][1] = cur[p].word

\* the token "Ab" has been inserted without error and is a key, with the
\* scores of "ab"
C6_Witness ==
    /\ pc[1] = "report"
    /\ cur[1].word = Str_Ab
    /\ log[1] = <<>>
    /\ \E i \in 1..Len(store) : store[i] = <<Str_Ab>> \o score_word(Str_ab)

(***************************************************************************)
(* C7.  calculate_gematria.                                                *)
(***************************************************************************)
\* C7, as claimed: the simple score of any word is the sum of the alphabet
\* positions (a = 1 ... z = 26, either case) of its ASCII letters, every
\* other character, non-ASCII letters included, adding nothing.
C7_SimpleScoreCountsAsciiLettersOnly ==
    "scores" \in applied =>
        scores[1] = sum([i \in 1..Len(arg) |-> AlphabetPosition(arg[i])])

(***************************************************************************)
(* C8.  English score = 6 x simple score.                                  *)
(***************************************************************************)
\* C8: for every word made only of ASCII letters, so for each of the 26
\* letters in either case, calculate_english_gematria is six times
\* calculate_gematria; "a" scores 6 and "z" scores 156.
C8_EnglishIsSixTimesSimple ==
    "scores" \in applied =>
        /\ OnlyAsciiLetters(arg) => scores[3] = 6 * scores[1]
        /\ arg = <<97>> => scores[3] = 6
        /\ arg = <<122>> => scores[3] = 156

\* the scores of "V" have been computed: 22 and 132
C8_Witness ==
    /\ "scores" \in applied
    /\ arg = <<86>>
    /\ scores[1] = 22
    /\ scores[3] = 132

(***************************************************************************)
(* C9.  calculate_hebrew_gematria.                                         *)
(***************************************************************************)
\* C9: the table of calculate_hebrew_gematria has a key for each of the 26
\* lowercase Latin letters; the score of any word is the sum, over the
\* characters of its lowercase form, of the table value of each that is one
\* of these letters and of 0 for any other; "a" scores 1, "j" 600, "w" 900
\* and "Abe" 8.
C9_HebrewTableCoversAlphabet ==
    /\ DOMAIN hebrew_values = LowerAscii
    /\ "scores" \in applied =>
        /\ LET lw == lower(arg)
           IN  scores[2] =
                 sum([i \in 1..Len(lw) |->
                        IF lw[i] \in LowerAscii THEN hebrew_values[lw[i]] ELSE 0])
        /\ (\A i \in 1..Len(arg) : ~char_isalpha(arg[i])) => scores[2] = 0
        /\ arg = <<97>> => scores[2] = 1
        /\ arg = <<106>> => scores[2] = 600
        /\ arg = <<119>> => scores[2] = 900
        /\ arg = Str_Abe => scores[2] = 8

\* the Hebrew score of "J" has been computed: 600
C9_Witness ==
    /\ "scores" \in applied
    /\ arg = <<74>>
    /\ scores[2] = 600

(***************************************************************************)
(* C10.  Reporting order and count.                                        *)
(***************************************************************************)
\* the insert_word call of p for w has ended and line 108 is behind, or will
\* never be reached
CallEnded(p, w) ==
    /\ w \in words[p] \ todo[p]
    /\ ~(cur[p].word = w /\ pc[p] \in InCall \cup {"report"})

\* C10, as claimed: in a run of process_file there is exactly one 'Processed
\* word' record for each token whose insert_word call has ended, whether the
\* insert created a row, was ignored or failed and was logged, none for a
\* token whose call has not ended, and each record carries the scores passed
\* to that call.
C10_OneInfoRecordPerCall ==
    \A p \in Procs :
        (entry[p] = "main" /\ Tokenized(p)) =>
            \A w \in words[p] :
                /\ Cardinality(InfoRecs(p, w)) = IF CallEnded(p, w) THEN 1 ELSE 0
                /\ \A i \in InfoRecs(p, w) : log[p][i].vals = score_word(w)

=============================================================================
